---- MODULE Spec2Model ----
(***************************************************************************)
(* The credential / token lifecycle of dante-backend's auth-service.       *)
(*                                                                         *)
(* One shared `users` table (every service points at the same             *)
(* DATABASE_URL) is read and written by the handlers of                    *)
(*   "main"   app/main.py            (register, login, refresh, profile)   *)
(*   "api"    app/api/v1/endpoints   (create_new_user, login)              *)
(*   "simple" simple_auth.py         (register, login, profile)            *)
(*   "dash"   dashboard_service.py   (get_current_user, sample data, jobs) *)
(* Handlers that probe the table and then commit are split at the commit,  *)
(* so that requests served by different workers interleave there.          *)
(* The user record carries the fields the handlers read and write          *)
(* (id, username, email, hashed_password, role, is_active, updated_at).    *)
(***************************************************************************)
EXTENDS Integers, Sequences, FiniteSets, TLC

VARIABLES users, now, held, pending, startup, resp, dash

vars == <<users, now, held, pending, startup, resp, dash>>

----------------------------------------------------------------------------
(* Bounds of the model *)

MaxUsers == 2
MaxTicks == 2
TickHours == 480

(* Program constants *)

MinPasswordLen == 8
MinUsernameLen == 3
MaxUsernameLen == 50
AccessTokenHours == 24
RefreshTokenDays == 30
ACCESS_TOKEN_EXPIRE_HOURS == 24
HoursPerDay == 24

settings_SECRET_KEY == "c3ab8ff13720e8ad9047dd39466b3c8974e592c2fa383d4a3960714caef0c4f2"
simple_SECRET_KEY == "dante_super_secret_jwt_key_2024_production_ready"
dashboard_SECRET_KEY == "dante_super_secret_jwt_key_2024_production_ready"

(* Input domains *)

Clients == {"c1", "c2"}
Usernames == {"admin", "demo"}
Emails == {"admin@dantegpu.com", "demo@dantegpu.com"}
Passwords == {"admin123", "demo12345", "short"}
Roles == {"user", "admin"}

(* Python's None, per type *)
NoneStr == "<None>"
NoneId == 0
NoneTime == -1

----------------------------------------------------------------------------
(* Credential Hasher *)

get_password_hash(password) == "$2b$12$" \o password

HashOutputs == {get_password_hash(p) : p \in Passwords}

verify_password(plain_password, hashed_password) ==
    hashed_password = get_password_hash(plain_password)

----------------------------------------------------------------------------
(* Token Codec *)

NoToken ==
    [fmt |-> "none", key |-> NoneStr, sub |-> NoneStr, user_id |-> NoneId,
     email |-> NoneStr, role |-> NoneStr, type |-> NoneStr, exp |-> NoneTime]

\* a bearer string that is no JWT at all
Garbage == [NoToken EXCEPT !.fmt = "garbage"]

jwt_encode(to_encode, key) == [to_encode EXCEPT !.fmt = "jwt", !.key = key]

\* a decode that does not look at exp
jwt_decode_ignoring_exp(token, key, t) ==
    IF token.fmt = "jwt" /\ token.key = key
    THEN [err |-> FALSE, payload |-> token]
    ELSE [err |-> TRUE, payload |-> NoToken]

\* python-jose: signature, structure, then exp < now raises ExpiredSignatureError
jwt_decode(token, key, t) ==
    IF token.fmt = "jwt" /\ token.key = key /\ ~(token.exp /= NoneTime /\ token.exp < t)
    THEN [err |-> FALSE, payload |-> token]
    ELSE [err |-> TRUE, payload |-> NoToken]

Claims(sub, user_id, email, role) ==
    [NoToken EXCEPT !.sub = sub, !.user_id = user_id, !.email = email, !.role = role]

create_access_token(data, t) ==
    jwt_encode([data EXCEPT !.exp = t + AccessTokenHours, !.type = "access"],
               settings_SECRET_KEY)

create_refresh_token(data, t) ==
    jwt_encode([data EXCEPT !.exp = t + RefreshTokenDays * HoursPerDay, !.type = "refresh"],
               settings_SECRET_KEY)

simple_create_access_token(data, t) ==
    jwt_encode([data EXCEPT !.exp = t + ACCESS_TOKEN_EXPIRE_HOURS], simple_SECRET_KEY)

\* f"refresh_{access_token[:20]}": "refresh_" and the first 20 characters of the JWT's
\* header segment, the same string for every access token and not a JWT
simple_refresh_string(access_token) == [NoToken EXCEPT !.fmt = "refresh_prefix"]

----------------------------------------------------------------------------
(* User Directory *)

NoUser ==
    [id |-> NoneId, username |-> NoneStr, email |-> NoneStr, hashed_password |-> NoneStr,
     role |-> NoneStr, is_active |-> FALSE, updated_at |-> NoneTime]

Rows(db) == {db[i] : i \in 1..Len(db)}

\* query(...).filter(...).first()
First(db, matches) ==
    IF matches = {} THEN NoUser
    ELSE db[CHOOSE i \in matches : \A j \in matches : i <= j]

get_user_by_email(db, email) ==
    First(db, {i \in 1..Len(db) : db[i].email = email})

get_user_by_username(db, username) ==
    First(db, {i \in 1..Len(db) : db[i].username = username})

\* the users table without its unique indexes
UniqueViolation_unindexed(db, id, username, email) == FALSE

\* the unique indexes of the users table, as the INSERT / UPDATE of row `id` sees them
UniqueViolation(db, id, username, email) ==
    \E i \in 1..Len(db) :
        /\ db[i].id /= id
        /\ (db[i].username = username \/ db[i].email = email)

authenticate_user(db, username, password) ==
    LET user == get_user_by_username(db, username) IN
    IF user = NoUser THEN NoUser
    ELSE IF ~user.is_active THEN NoUser
    ELSE IF ~verify_password(password, user.hashed_password) THEN NoUser
    ELSE user

NewUser(db, username, email, password, role, t) ==
    [id |-> Len(db) + 1, username |-> username, email |-> email,
     hashed_password |-> get_password_hash(password), role |-> role,
     is_active |-> TRUE, updated_at |-> t]

----------------------------------------------------------------------------
(* Requests in flight and responses *)

NoReq ==
    [op |-> "none", username |-> NoneStr, email |-> NoneStr, password |-> NoneStr,
     role |-> NoneStr, uid |-> NoneId, data |-> [f \in {} |-> NoneStr]]

Response(svc, op, status, detail) ==
    [svc |-> svc, op |-> op, status |-> status, detail |-> detail,
     token |-> NoToken, refresh_token |-> NoToken, user_id |-> NoneId,
     username |-> NoneStr, email |-> NoneStr, role |-> NoneStr, permissions |-> {},
     client |-> NoneStr,
     request |-> [username |-> NoneStr, password |-> NoneStr, token |-> NoToken]]

\* no response is on its way to a client
NoResp == Response(NoneStr, NoneStr, 0, NoneStr)

\* the response to client c, with the request it answers: the credentials or the
\* bearer string that were sent
Answer(r, c, username, password, token) ==
    [r EXCEPT !.client = c,
              !.request = [username |-> username, password |-> password, token |-> token]]

\* an exception no handler catches: the framework answers 500
Unhandled(svc, op) == Response(svc, op, 500, "Internal Server Error")

Permissions(user) ==
    IF user.role = "user" THEN {"user:read", "wallet:read", "job:submit"} ELSE {"admin:all"}

AuthResponse(svc, op, token, refresh_token, user, permissions) ==
    [Response(svc, op, 200, "") EXCEPT
        !.token = token, !.refresh_token = refresh_token, !.user_id = user.id,
        !.username = user.username, !.email = user.email, !.role = user.role,
        !.permissions = permissions]

\* the profile a protected operation answers with
UserProfile(svc, op, user) ==
    [Response(svc, op, 200, "") EXCEPT
        !.user_id = user.id, !.username = user.username, !.email = user.email,
        !.role = user.role]

NoBundle == [access |-> NoToken, refresh |-> NoToken, user_id |-> NoneId]

\* what a client keeps of an AuthResponse
Bundle(r) == [access |-> r.token, refresh |-> r.refresh_token, user_id |-> r.user_id]

\* a refresh-kind token without subject, signed with the checked-in secret
ForgedNoSub ==
    jwt_encode([NoToken EXCEPT !.type = "refresh"], settings_SECRET_KEY)

\* the bearer strings client c can present
TokenInputs(c) ==
    ({held[c].access, held[c].refresh} \ {NoToken}) \cup {Garbage, ForgedNoSub}

\* client c may send a request: it has none in flight and no response is in transit
Ready(c) == pending[c] = NoReq /\ resp = NoResp

Reply(r) ==
    /\ resp' = r
    /\ UNCHANGED <<users, now, held, pending, startup, dash>>

\* the client takes the response and keeps the tokens of an AuthResponse
receive(c) ==
    /\ resp /= NoResp
    /\ resp.client = c
    /\ resp' = NoResp
    /\ held' = IF resp.status = 200 /\ resp.token /= NoToken
               THEN [held EXCEPT ![c] = Bundle(resp)]
               ELSE held
    /\ UNCHANGED <<users, now, pending, startup, dash>>

----------------------------------------------------------------------------
(* app/main.py: Authorize *)

verify_token(token, t) ==
    LET d == jwt_decode(token, settings_SECRET_KEY, t) IN
    IF d.err
    THEN [status |-> 401, detail |-> "Invalid authentication credentials", data |-> NoToken]
    ELSE IF d.payload.sub = NoneStr
    THEN [status |-> 401, detail |-> "Invalid authentication credentials", data |-> NoToken]
    ELSE [status |-> 200, detail |-> "",
          data |-> Claims(d.payload.sub, d.payload.user_id, d.payload.email, d.payload.role)]

get_current_user(token, db, t) ==
    LET token_data == verify_token(token, t)
        user == get_user_by_username(db, token_data.data.sub)
    IN  IF token_data.status /= 200
        THEN [status |-> token_data.status, detail |-> token_data.detail, user |-> NoUser]
        ELSE IF user = NoUser
        THEN [status |-> 401, detail |-> "User not found", user |-> NoUser]
        ELSE IF ~user.is_active
        THEN [status |-> 400, detail |-> "Inactive user", user |-> NoUser]
        ELSE [status |-> 200, detail |-> "", user |-> user]

get_current_active_user(token, db, t) ==
    LET current_user == get_current_user(token, db, t) IN
    IF current_user.status = 200 /\ ~current_user.user.is_active
    THEN [status |-> 400, detail |-> "Inactive user", user |-> NoUser]
    ELSE current_user

\* the answer of a protected operation whose dependency raised
Protected(op, auth) == Response("main", op, auth.status, auth.detail)

----------------------------------------------------------------------------
(* app/main.py: register *)

\* pydantic's UserCreate(...) accepts the fields
UserCreateValid(username, password) ==
    /\ Len(username) >= MinUsernameLen
    /\ Len(username) <= MaxUsernameLen
    /\ Len(password) >= MinPasswordLen

\* register without its username probe
register_checks_email_only(db, username, email, password) ==
    IF get_user_by_email(db, email) /= NoUser
    THEN Response("main", "register", 400, "Email already registered")
    ELSE IF Len(password) < MinPasswordLen
    THEN Response("main", "register", 400, "Password must be at least 8 characters long")
    ELSE IF ~UserCreateValid(username, password)
    THEN Unhandled("main", "register")
    ELSE NoResp

\* lines 206-234: the answer of the checks, NoResp when the request goes on to create_user
register_checks(db, username, email, password) ==
    IF get_user_by_email(db, email) /= NoUser
    THEN Response("main", "register", 400, "Email already registered")
    ELSE IF get_user_by_username(db, username) /= NoUser
    THEN Response("main", "register", 400, "Username already taken")
    ELSE IF Len(password) < MinPasswordLen
    THEN Response("main", "register", 400, "Password must be at least 8 characters long")
    ELSE IF ~UserCreateValid(username, password)
    THEN Unhandled("main", "register")
    ELSE NoResp

\* the request passed its checks and goes on to the commit
Proceed(c, op, username, email, password, role) ==
    /\ pending' = [pending EXCEPT ![c] =
            [NoReq EXCEPT !.op = op, !.username = username, !.email = email,
                          !.password = password, !.role = role]]
    /\ UNCHANGED <<users, now, held, startup, resp, dash>>

register(c, username, email, password, role) ==
    /\ Ready(c)
    /\ LET chk == register_checks(users, username, email, password) IN
       IF chk /= NoResp
       THEN Reply(Answer(chk, c, username, password, NoToken))
       ELSE Proceed(c, "register", username, email, password, role)

\* the access token's subject taken from the email instead of the username
IssueTokens_email_subject(op, user, t) ==
    LET access_token == create_access_token(
            Claims(user.email, user.id, user.email, user.role), t)
        refresh_token == create_refresh_token(
            Claims(user.username, user.id, NoneStr, NoneStr), t)
    IN  AuthResponse("main", op, access_token, refresh_token, user, Permissions(user))

\* the tokens and the answer of lines 244-270 / 291-317
IssueTokens(op, user, t) ==
    LET access_token == create_access_token(
            Claims(user.username, user.id, user.email, user.role), t)
        refresh_token == create_refresh_token(
            Claims(user.username, user.id, NoneStr, NoneStr), t)
    IN  AuthResponse("main", op, access_token, refresh_token, user, Permissions(user))

\* the row create_user builds for the request that client c has in flight
PendingUser(c) ==
    NewUser(users, pending[c].username, pending[c].email, pending[c].password,
            pending[c].role, now)

\* create_user: the INSERT and its commit under the table's unique indexes; `failure`
\* is the handler's answer to the IntegrityError, `success` its answer with the new row
Commit(c, op, failure, success) ==
    /\ pending[c].op = op
    /\ resp = NoResp
    /\ pending' = [pending EXCEPT ![c] = NoReq]
    /\ LET r == pending[c]
           user == PendingUser(c)
       IN  IF UniqueViolation(users, user.id, r.username, r.email)
           THEN /\ resp' = Answer(failure, c, r.username, r.password, NoToken)
                /\ UNCHANGED <<users, now, held, startup, dash>>
           ELSE /\ Len(users) < MaxUsers
                /\ users' = Append(users, user)
                /\ resp' = Answer(success, c, r.username, r.password, NoToken)
                /\ UNCHANGED <<now, held, startup, dash>>

register_commit(c) ==
    Commit(c, "register", Response("main", "register", 500, "Failed to create user"),
           IssueTokens("register", PendingUser(c), now))

----------------------------------------------------------------------------
(* app/main.py: login, refresh *)

\* the answer of login to the credentials, given the table and the instant
login_response(db, username, password, t) ==
    LET user == authenticate_user(db, username, password) IN
    IF user = NoUser
    THEN Response("main", "login", 401, "Invalid username or password")
    ELSE IF ~user.is_active
    THEN Response("main", "login", 400, "User account is disabled")
    ELSE IssueTokens("login", user, t)

login(c, username, password) ==
    /\ Ready(c)
    /\ Reply(Answer(login_response(users, username, password, now),
                    c, username, password, NoToken))

\* refresh without the check of the token's type
refresh_response_any_type(token, db, t) ==
    LET d == jwt_decode(token, settings_SECRET_KEY, t)
        user == get_user_by_username(db, d.payload.sub)
    IN  IF d.err
        THEN Response("main", "refresh", 401, "Invalid refresh token")
        ELSE IF d.payload.sub = NoneStr
        THEN Response("main", "refresh", 401, "Invalid refresh token")
        ELSE IF user = NoUser \/ ~user.is_active
        THEN Response("main", "refresh", 401, "User not found or inactive")
        ELSE AuthResponse("main", "refresh",
                 create_access_token(Claims(user.username, user.id, user.email, user.role), t),
                 token, user, Permissions(user))

\* refresh that looks the user up but does not test is_active
refresh_response_any_user(token, db, t) ==
    LET d == jwt_decode(token, settings_SECRET_KEY, t)
        user == get_user_by_username(db, d.payload.sub)
    IN  IF d.err
        THEN Response("main", "refresh", 401, "Invalid refresh token")
        ELSE IF d.payload.sub = NoneStr \/ d.payload.type /= "refresh"
        THEN Response("main", "refresh", 401, "Invalid refresh token")
        ELSE IF user = NoUser
        THEN Response("main", "refresh", 401, "User not found or inactive")
        ELSE AuthResponse("main", "refresh",
                 create_access_token(Claims(user.username, user.id, user.email, user.role), t),
                 token, user, Permissions(user))

refresh_response(token, db, t) ==
    LET d == jwt_decode(token, settings_SECRET_KEY, t)
        user == get_user_by_username(db, d.payload.sub)
    IN  IF d.err
        THEN Response("main", "refresh", 401, "Invalid refresh token")
        ELSE IF d.payload.sub = NoneStr \/ d.payload.type /= "refresh"
        THEN Response("main", "refresh", 401, "Invalid refresh token")
        ELSE IF user = NoUser \/ ~user.is_active
        THEN Response("main", "refresh", 401, "User not found or inactive")
        ELSE AuthResponse("main", "refresh",
                 create_access_token(Claims(user.username, user.id, user.email, user.role), t),
                 token, user, Permissions(user))

refresh_token(c, token) ==
    /\ Ready(c)
    /\ Reply(Answer(refresh_response(token, users, now), c, NoneStr, NoneStr, token))

----------------------------------------------------------------------------
(* app/main.py: protected operations *)

get_user_profile(c, token) ==
    /\ Ready(c)
    /\ LET auth == get_current_active_user(token, users, now) IN
       IF auth.status /= 200
       THEN Reply(Answer(Protected("get_profile", auth), c, NoneStr, NoneStr, token))
       ELSE Reply(Answer(UserProfile("main", "get_profile", auth.user),
                         c, NoneStr, NoneStr, token))

\* update_user over model_dump() without exclude_unset: the fields that were not
\* supplied are written with the schema's defaults
update_user_with_defaults(db_user, user_in, t) ==
    LET set == [f \in DOMAIN db_user |->
                    IF f = "hashed_password" /\ "password" \in DOMAIN user_in
                    THEN get_password_hash(user_in.password)
                    ELSE IF f \in DOMAIN user_in THEN user_in[f]
                    ELSE IF f = "role" THEN "user"
                    ELSE IF f = "is_active" THEN TRUE
                    ELSE db_user[f]]
    IN  IF set = db_user THEN db_user ELSE [set EXCEPT !.updated_at = t]

\* update_user that stores the supplied password as it came
update_user_unhashed(db_user, user_in, t) ==
    LET update_data ==
            IF "password" \in DOMAIN user_in /\ user_in.password /= ""
            THEN [f \in (DOMAIN user_in \ {"password"}) \cup {"hashed_password"} |->
                    IF f = "hashed_password"
                    THEN user_in.password
                    ELSE user_in[f]]
            ELSE user_in
        set == [f \in DOMAIN db_user |->
                    IF f \in DOMAIN update_data THEN update_data[f] ELSE db_user[f]]
    IN  \* onupdate=func.now() runs when the flush emits an UPDATE
        IF set = db_user THEN db_user ELSE [set EXCEPT !.updated_at = t]

\* crud_user.update_user: model_dump(exclude_unset=True) is a dict of the supplied fields
update_user(db_user, user_in, t) ==
    LET update_data ==
            IF "password" \in DOMAIN user_in /\ user_in.password /= ""
            THEN [f \in (DOMAIN user_in \ {"password"}) \cup {"hashed_password"} |->
                    IF f = "hashed_password"
                    THEN get_password_hash(user_in.password)
                    ELSE user_in[f]]
            ELSE user_in
        set == [f \in DOMAIN db_user |->
                    IF f \in DOMAIN update_data THEN update_data[f] ELSE db_user[f]]
    IN  \* onupdate=func.now() runs when the flush emits an UPDATE
        IF set = db_user THEN db_user ELSE [set EXCEPT !.updated_at = t]

\* update_user_profile without its username probe
update_checks_email_only(db, current_user, user_update) ==
    LET by_email == get_user_by_email(db, user_update.email)
    IN  IF /\ "email" \in DOMAIN user_update
           /\ user_update.email /= current_user.email
           /\ by_email /= NoUser
           /\ by_email.id /= current_user.id
        THEN Response("main", "update_profile", 400, "Email already registered")
        ELSE NoResp

\* lines 390-406: the answer of the two probes, NoResp when the request goes on
update_checks(db, current_user, user_update) ==
    LET by_email == get_user_by_email(db, user_update.email)
        by_username == get_user_by_username(db, user_update.username)
    IN  IF /\ "email" \in DOMAIN user_update
           /\ user_update.email /= current_user.email
           /\ by_email /= NoUser
           /\ by_email.id /= current_user.id
        THEN Response("main", "update_profile", 400, "Email already registered")
        ELSE IF /\ "username" \in DOMAIN user_update
                /\ user_update.username /= current_user.username
                /\ by_username /= NoUser
                /\ by_username.id /= current_user.id
        THEN Response("main", "update_profile", 400, "Username already taken")
        ELSE NoResp

\* the request body FastAPI accepts as a UserUpdate (password: min_length=8)
UserUpdateValid(user_update) ==
    "password" \in DOMAIN user_update => Len(user_update.password) >= MinPasswordLen

update_user_profile(c, token, user_update) ==
    /\ Ready(c)
    /\ LET auth == get_current_active_user(token, users, now)
           chk == update_checks(users, auth.user, user_update)
       IN  IF auth.status /= 200
           THEN Reply(Answer(Protected("update_profile", auth), c, NoneStr, NoneStr, token))
           ELSE IF ~UserUpdateValid(user_update)
           THEN Reply(Answer(Response("main", "update_profile", 422, "validation error"),
                             c, NoneStr, NoneStr, token))
           ELSE IF chk /= NoResp
           THEN Reply(Answer(chk, c, NoneStr, NoneStr, token))
           ELSE /\ pending' = [pending EXCEPT ![c] =
                       [NoReq EXCEPT !.op = "update_profile", !.uid = auth.user.id,
                                     !.data = user_update]]
                /\ UNCHANGED <<users, now, held, startup, resp, dash>>

update_user_profile_commit(c) ==
    /\ pending[c].op = "update_profile"
    /\ resp = NoResp
    /\ pending' = [pending EXCEPT ![c] = NoReq]
    /\ LET r == pending[c]
           updated_user == update_user(users[r.uid], r.data, now)
       IN  IF UniqueViolation(users, r.uid, updated_user.username, updated_user.email)
           THEN /\ resp' = Answer(Response("main", "update_profile", 500,
                                           "Failed to update profile"),
                                  c, NoneStr, NoneStr, NoToken)
                /\ UNCHANGED <<users, now, held, startup, dash>>
           ELSE /\ users' = [users EXCEPT ![r.uid] = updated_user]
                /\ resp' = Answer(UserProfile("main", "update_profile", updated_user),
                                  c, NoneStr, NoneStr, NoToken)
                /\ UNCHANGED <<now, held, startup, dash>>

\* change_password that hashes the current password instead of the new one
change_password_hashes_current(c, token, current_password, new_password) ==
    /\ Ready(c)
    /\ LET auth == get_current_active_user(token, users, now)
           current_user == auth.user
       IN  IF auth.status /= 200
           THEN Reply(Answer(Protected("change_password", auth),
                             c, NoneStr, current_password, token))
           ELSE IF ~verify_password(current_password, current_user.hashed_password)
           THEN Reply(Answer(Response("main", "change_password", 400,
                                      "Current password is incorrect"),
                             c, NoneStr, current_password, token))
           ELSE IF Len(new_password) < MinPasswordLen
           THEN Reply(Answer(Response("main", "change_password", 400,
                                      "New password must be at least 8 characters long"),
                             c, NoneStr, current_password, token))
           ELSE /\ users' = [users EXCEPT ![current_user.id] =
                       [current_user EXCEPT
                           !.hashed_password = get_password_hash(current_password),
                           !.updated_at = now]]
                /\ resp' = Answer(Response("main", "change_password", 200,
                                           "Password changed successfully"),
                                  c, NoneStr, current_password, token)
                /\ UNCHANGED <<now, held, pending, startup, dash>>

\* change_password without the check of the new password's length
change_password_any_length(c, token, current_password, new_password) ==
    /\ Ready(c)
    /\ LET auth == get_current_active_user(token, users, now)
           current_user == auth.user
       IN  IF auth.status /= 200
           THEN Reply(Answer(Protected("change_password", auth),
                             c, NoneStr, current_password, token))
           ELSE IF ~verify_password(current_password, current_user.hashed_password)
           THEN Reply(Answer(Response("main", "change_password", 400,
                                      "Current password is incorrect"),
                             c, NoneStr, current_password, token))
           ELSE /\ users' = [users EXCEPT ![current_user.id] =
                       [current_user EXCEPT
                           !.hashed_password = get_password_hash(new_password),
                           !.updated_at = now]]
                /\ resp' = Answer(Response("main", "change_password", 200,
                                           "Password changed successfully"),
                                  c, NoneStr, current_password, token)
                /\ UNCHANGED <<now, held, pending, startup, dash>>

\* change_password whose UPDATE is not restricted to the requester's row
change_password_every_row(c, token, current_password, new_password) ==
    /\ Ready(c)
    /\ LET auth == get_current_active_user(token, users, now)
           current_user == auth.user
       IN  IF auth.status /= 200
           THEN Reply(Answer(Protected("change_password", auth),
                             c, NoneStr, current_password, token))
           ELSE IF ~verify_password(current_password, current_user.hashed_password)
           THEN Reply(Answer(Response("main", "change_password", 400,
                                      "Current password is incorrect"),
                             c, NoneStr, current_password, token))
           ELSE IF Len(new_password) < MinPasswordLen
           THEN Reply(Answer(Response("main", "change_password", 400,
                                      "New password must be at least 8 characters long"),
                             c, NoneStr, current_password, token))
           ELSE /\ users' = [i \in 1..Len(users) |->
                       [users[i] EXCEPT
                           !.hashed_password = get_password_hash(new_password),
                           !.updated_at = now]]
                /\ resp' = Answer(Response("main", "change_password", 200,
                                           "Password changed successfully"),
                                  c, NoneStr, current_password, token)
                /\ UNCHANGED <<now, held, pending, startup, dash>>

\* change_password that writes the new hash before it checks the new password's
\* length, and answers 400 without a rollback
change_password_validating_late(c, token, current_password, new_password) ==
    /\ Ready(c)
    /\ LET auth == get_current_active_user(token, users, now)
           current_user == auth.user
       IN  IF auth.status /= 200
           THEN Reply(Answer(Protected("change_password", auth),
                             c, NoneStr, current_password, token))
           ELSE IF ~verify_password(current_password, current_user.hashed_password)
           THEN Reply(Answer(Response("main", "change_password", 400,
                                      "Current password is incorrect"),
                             c, NoneStr, current_password, token))
           ELSE /\ users' = [users EXCEPT ![current_user.id] =
                       [current_user EXCEPT
                           !.hashed_password = get_password_hash(new_password),
                           !.updated_at = now]]
                /\ resp' = Answer(IF Len(new_password) < MinPasswordLen
                                  THEN Response("main", "change_password", 400,
                                           "New password must be at least 8 characters long")
                                  ELSE Response("main", "change_password", 200,
                                           "Password changed successfully"),
                                  c, NoneStr, current_password, token)
                /\ UNCHANGED <<now, held, pending, startup, dash>>

change_password(c, token, current_password, new_password) ==
    /\ Ready(c)
    /\ LET auth == get_current_active_user(token, users, now)
           current_user == auth.user
       IN  IF auth.status /= 200
           THEN Reply(Answer(Protected("change_password", auth),
                             c, NoneStr, current_password, token))
           ELSE IF ~verify_password(current_password, current_user.hashed_password)
           THEN Reply(Answer(Response("main", "change_password", 400,
                                      "Current password is incorrect"),
                             c, NoneStr, current_password, token))
           ELSE IF Len(new_password) < MinPasswordLen
           THEN Reply(Answer(Response("main", "change_password", 400,
                                      "New password must be at least 8 characters long"),
                             c, NoneStr, current_password, token))
           ELSE /\ users' = [users EXCEPT ![current_user.id] =
                       [current_user EXCEPT
                           !.hashed_password = get_password_hash(new_password),
                           !.updated_at = now]]
                /\ resp' = Answer(Response("main", "change_password", 200,
                                           "Password changed successfully"),
                                  c, NoneStr, current_password, token)
                /\ UNCHANGED <<now, held, pending, startup, dash>>

\* list_users that decides by the role claim of the token
list_users_by_token_role(c, token) ==
    /\ Ready(c)
    /\ LET auth == get_current_active_user(token, users, now)
           current_user == auth.user
       IN  IF auth.status /= 200
           THEN Reply(Answer(Protected("list_users", auth), c, NoneStr, NoneStr, token))
           ELSE IF verify_token(token, now).data.role /= "admin"
           THEN Reply(Answer(Response("main", "list_users", 403, "Insufficient permissions"),
                             c, NoneStr, NoneStr, token))
           ELSE Reply(Answer(UserProfile("main", "list_users", current_user),
                             c, NoneStr, NoneStr, token))

list_users(c, token) ==
    /\ Ready(c)
    /\ LET auth == get_current_active_user(token, users, now)
           current_user == auth.user
       IN  IF auth.status /= 200
           THEN Reply(Answer(Protected("list_users", auth), c, NoneStr, NoneStr, token))
           ELSE IF current_user.role /= "admin"
           THEN Reply(Answer(Response("main", "list_users", 403, "Insufficient permissions"),
                             c, NoneStr, NoneStr, token))
           ELSE Reply(Answer(UserProfile("main", "list_users", current_user),
                             c, NoneStr, NoneStr, token))

\* logout that ends the sessions by disabling the account
logout_disabling(c, token) ==
    /\ Ready(c)
    /\ LET auth == get_current_active_user(token, users, now) IN
       IF auth.status /= 200
       THEN Reply(Answer(Protected("logout", auth), c, NoneStr, NoneStr, token))
       ELSE /\ users' = [users EXCEPT ![auth.user.id].is_active = FALSE]
            /\ resp' = Answer(Response("main", "logout", 200, "Successfully logged out"),
                              c, NoneStr, NoneStr, token)
            /\ UNCHANGED <<now, held, pending, startup, dash>>

logout(c, token) ==
    /\ Ready(c)
    /\ LET auth == get_current_active_user(token, users, now) IN
       IF auth.status /= 200
       THEN Reply(Answer(Protected("logout", auth), c, NoneStr, NoneStr, token))
       ELSE Reply(Answer(Response("main", "logout", 200, "Successfully logged out"),
                         c, NoneStr, NoneStr, token))

----------------------------------------------------------------------------
(* app/main.py: startup_event *)

\* startup_event without its probe for "admin"
startup_create_admin_unprobed ==
    /\ startup = "idle"
    /\ resp = NoResp
    /\ startup' = "create_admin"
    /\ UNCHANGED <<users, now, held, pending, resp, dash>>

startup_probe_admin ==
    /\ startup = "idle"
    /\ resp = NoResp
    /\ startup' = IF get_user_by_username(users, "admin") = NoUser
                  THEN "create_admin" ELSE "probe_demo"
    /\ UNCHANGED <<users, now, held, pending, resp, dash>>

\* create_user raising ends startup_event in its outer except
startup_create(pc, username, email, password, role, next_pc) ==
    /\ startup = pc
    /\ resp = NoResp
    /\ LET user == NewUser(users, username, email, password, role, now) IN
       IF ~UserCreateValid(username, password) \/ UniqueViolation(users, user.id, username, email)
       THEN /\ startup' = "idle"
            /\ UNCHANGED <<users, now, held, pending, resp, dash>>
       ELSE /\ Len(users) < MaxUsers
            /\ users' = Append(users, user)
            /\ startup' = next_pc
            /\ UNCHANGED <<now, held, pending, resp, dash>>

startup_create_admin ==
    startup_create("create_admin", "admin", "admin@dantegpu.com", "admin123", "admin",
                   "probe_demo")

startup_probe_demo ==
    /\ startup = "probe_demo"
    /\ resp = NoResp
    /\ startup' = IF get_user_by_username(users, "demo") = NoUser
                  THEN "create_demo" ELSE "idle"
    /\ UNCHANGED <<users, now, held, pending, resp, dash>>

startup_create_demo ==
    startup_create("create_demo", "demo", "demo@dantegpu.com", "demo12345", "user", "idle")

----------------------------------------------------------------------------
(* init_db.py: init_database *)

\* create_user inside its own try / except: the table with the row, or as it was
TryCreate(db, username, email, password, role, t) ==
    LET user == NewUser(db, username, email, password, role, t) IN
    IF UniqueViolation(db, user.id, username, email) THEN db ELSE Append(db, user)

init_database ==
    /\ startup = "idle"
    /\ resp = NoResp
    /\ LET with_admin == TryCreate(users, "admin", "admin@dantegpu.com", "admin123",
                                   "admin", now)
           with_demo == TryCreate(with_admin, "demo", "demo@dantegpu.com", "demo123456",
                                  "user", now)
       IN  /\ Len(with_demo) <= MaxUsers
           /\ users' = with_demo
    /\ UNCHANGED <<now, held, pending, startup, resp, dash>>

----------------------------------------------------------------------------
(* app/api/v1/endpoints: create_new_user, login_for_user_details *)

create_new_user_checks(db, username, email) ==
    IF get_user_by_username(db, username) /= NoUser
    THEN Response("api", "create_new_user", 409, "A user with this username already exists.")
    ELSE IF get_user_by_email(db, email) /= NoUser
    THEN Response("api", "create_new_user", 409, "A user with this email already exists.")
    ELSE NoResp

\* the body is a UserCreate: FastAPI answers 422 before the handler runs
create_new_user(c, username, email, password, role) ==
    /\ Ready(c)
    /\ LET chk == create_new_user_checks(users, username, email) IN
       IF ~UserCreateValid(username, password)
       THEN Reply(Answer(Response("api", "create_new_user", 422, "validation error"),
                         c, username, password, NoToken))
       ELSE IF chk /= NoResp
       THEN Reply(Answer(chk, c, username, password, NoToken))
       ELSE Proceed(c, "create_new_user", username, email, password, role)

create_new_user_commit(c) ==
    Commit(c, "create_new_user", Unhandled("api", "create_new_user"),
           [UserProfile("api", "create_new_user", PendingUser(c)) EXCEPT !.status = 201])

login_for_user_details(c, username, password) ==
    /\ Ready(c)
    /\ LET user == authenticate_user(users, username, password) IN
       IF user = NoUser
       THEN Reply(Answer(Response("api", "login", 401, "Incorrect username or password"),
                         c, username, password, NoToken))
       ELSE IF ~user.is_active
       THEN Reply(Answer(Response("api", "login", 400, "Inactive user"),
                         c, username, password, NoToken))
       ELSE Reply(Answer(UserProfile("api", "login", user), c, username, password, NoToken))

----------------------------------------------------------------------------
(* simple_auth.py *)

simple_verify_token(token, key, t) ==
    LET d == jwt_decode(token, key, t) IN
    IF d.err \/ d.payload.sub = NoneStr
    THEN [status |-> 401, detail |-> "Invalid token", data |-> NoToken]
    ELSE [status |-> 200, detail |-> "", data |-> d.payload]

simple_get_current_user(token, db, t) ==
    LET payload == simple_verify_token(token, simple_SECRET_KEY, t)
        user == get_user_by_username(db, payload.data.sub)
    IN  IF payload.status /= 200
        THEN [status |-> payload.status, detail |-> payload.detail, user |-> NoUser]
        ELSE IF user = NoUser
        THEN [status |-> 401, detail |-> "User not found", user |-> NoUser]
        ELSE [status |-> 200, detail |-> "", user |-> user]

SimpleTokens(op, user, t) ==
    LET access_token == simple_create_access_token(
            Claims(user.username, user.id, NoneStr, user.role), t)
    IN  AuthResponse("simple", op, access_token, simple_refresh_string(access_token),
                     user, {})

\* .first() of the OR-filter, with no ORDER BY: any matching row; {} when none matches
simple_register_checks(db, username, email) ==
    {IF db[i].email = email
     THEN Response("simple", "register", 400, "Email already registered")
     ELSE Response("simple", "register", 400, "Username already taken") :
        i \in {j \in 1..Len(db) : db[j].email = email \/ db[j].username = username}}

simple_register(c, username, email, password) ==
    /\ Ready(c)
    /\ LET answers == simple_register_checks(users, username, email) IN
       IF answers /= {}
       THEN \E chk \in answers : Reply(Answer(chk, c, username, password, NoToken))
       ELSE Proceed(c, "simple_register", username, email, password, "user")

simple_register_commit(c) ==
    Commit(c, "simple_register", Unhandled("simple", "register"),
           SimpleTokens("register", PendingUser(c), now))

simple_login(c, username, password) ==
    /\ Ready(c)
    /\ LET user == get_user_by_username(users, username) IN
       IF user = NoUser \/ ~verify_password(password, user.hashed_password)
       THEN Reply(Answer(Response("simple", "login", 401, "Invalid username or password"),
                         c, username, password, NoToken))
       ELSE IF ~user.is_active
       THEN Reply(Answer(Response("simple", "login", 400, "Inactive user"),
                         c, username, password, NoToken))
       ELSE Reply(Answer(SimpleTokens("login", user, now), c, username, password, NoToken))

simple_get_profile(c, token) ==
    /\ Ready(c)
    /\ LET auth == simple_get_current_user(token, users, now) IN
       IF auth.status /= 200
       THEN Reply(Answer(Response("simple", "get_profile", auth.status, auth.detail),
                         c, NoneStr, NoneStr, token))
       ELSE Reply(Answer(UserProfile("simple", "get_profile", auth.user),
                         c, NoneStr, NoneStr, token))

\* simple_auth's logout has no dependency: it reads no token
simple_logout(c) ==
    /\ Ready(c)
    /\ Reply(Answer(Response("simple", "logout", 200, "Successfully logged out"),
                    c, NoneStr, NoneStr, NoToken))

----------------------------------------------------------------------------
(* dashboard_service.py: the dependency of every dashboard endpoint *)

dashboard_get_current_user(token, db, t) ==
    LET payload == simple_verify_token(token, dashboard_SECRET_KEY, t)
        user == get_user_by_username(db, payload.data.sub)
    IN  IF payload.status /= 200
        THEN [status |-> payload.status, detail |-> payload.detail, user |-> NoUser]
        ELSE IF user = NoUser
        THEN [status |-> 401, detail |-> "User not found", user |-> NoUser]
        ELSE [status |-> 200, detail |-> "", user |-> user]

dashboard_request(c, token) ==
    /\ Ready(c)
    /\ LET auth == dashboard_get_current_user(token, users, now) IN
       IF auth.status /= 200
       THEN Reply(Answer(Response("dash", "dashboard", auth.status, auth.detail),
                         c, NoneStr, NoneStr, token))
       ELSE Reply(Answer(UserProfile("dash", "dashboard", auth.user),
                         c, NoneStr, NoneStr, token))

----------------------------------------------------------------------------
(* dashboard_service.py: the providers, jobs and transactions tables and    *)
(* the wallet columns of users, held in dash.  A row's id is its index.     *)
(* Every handler runs on a Session of its own; workers of the service on    *)
(* the same database interleave between a handler's query and its commit.   *)

NoSampleData == [providers |-> <<>>, jobs |-> <<>>, transactions |-> <<>>, funded |-> {}]

\* a job_id that does not parse as a UUID
MalformedJobId == -1

\* JobStatus
JobStatus == {"pending", "running", "completed", "failed", "cancelled"}

\* the names of providers_data
providers_data == <<"CloudGPU Pro", "AI Compute Hub", "RenderFarm Elite">>

\* the rows get_user_jobs adds for a user; providers is the answer of limit(2).all(),
\* running since 2h45m, completed 5h to 4h ago (in whole hours)
sample_jobs(user_id, providers, t) ==
    LET second == IF Len(providers) > 1 THEN 2 ELSE 1 IN
    << [user_id |-> user_id, provider_id |-> 1, status |-> "running",
        started_at |-> t - 3, completed_at |-> NoneTime],
       [user_id |-> user_id, provider_id |-> second, status |-> "pending",
        started_at |-> NoneTime, completed_at |-> NoneTime],
       [user_id |-> user_id, provider_id |-> 1, status |-> "completed",
        started_at |-> t - 5, completed_at |-> t - 4] >>

\* the rows get_user_transactions adds for a user
sample_transactions(user_id) ==
    [i \in 1..4 |->
        [user_id |-> user_id,
         transaction_type |-> <<"payment", "deposit", "earning", "refund">>[i]]]

\* db.query(...).filter(user_id == current_user.id).count()
CountOf(rows, user_id) == Cardinality({i \in 1..Len(rows) : rows[i].user_id = user_id})

\* query(...).limit(n).all()
Limit(rows, n) == SubSeq(rows, 1, IF Len(rows) < n THEN Len(rows) ELSE n)

DashAnswer(op, status, detail, user, c, token) ==
    Answer([Response("dash", op, status, detail) EXCEPT
                !.user_id = user.id, !.username = user.username],
           c, NoneStr, NoneStr, token)

\* init_sample_data up to its count of the providers, as get_dashboard_stats and
\* get_providers call it: it returns when a provider exists
init_sample_data(c, op, token) ==
    /\ Ready(c)
    /\ LET auth == dashboard_get_current_user(token, users, now) IN
       IF auth.status /= 200
       THEN Reply(DashAnswer(op, auth.status, auth.detail, NoUser, c, token))
       ELSE IF Len(dash.providers) > 0
       THEN Reply(DashAnswer(op, 200, "", auth.user, c, token))
       ELSE /\ pending' = [pending EXCEPT ![c] =
                   [NoReq EXCEPT !.op = op, !.uid = auth.user.id,
                                 !.data = [step |-> "wallets"]]]
            /\ UNCHANGED <<users, now, held, startup, resp, dash>>

get_dashboard_stats(c, token) == init_sample_data(c, "get_dashboard_stats", token)

get_providers(c, token) == init_sample_data(c, "get_providers", token)

\* init_sample_data, lines 303-313: every user with an empty wallet gets the sample
\* balances, committed
init_sample_data_wallets(c) ==
    /\ pending[c].op \in {"get_dashboard_stats", "get_providers"}
    /\ pending[c].data = [step |-> "wallets"]
    /\ resp = NoResp
    /\ dash' = [dash EXCEPT !.funded = dash.funded \cup (1..Len(users))]
    /\ pending' = [pending EXCEPT ![c].data = [step |-> "providers"]]
    /\ UNCHANGED <<users, now, held, startup, resp>>

\* init_sample_data, lines 376-384: the three providers are added and committed, and
\* the handler answers
init_sample_data_providers(c) ==
    /\ pending[c].op \in {"get_dashboard_stats", "get_providers"}
    /\ pending[c].data = [step |-> "providers"]
    /\ resp = NoResp
    /\ dash' = [dash EXCEPT !.providers = dash.providers \o providers_data]
    /\ pending' = [pending EXCEPT ![c] = NoReq]
    /\ resp' = DashAnswer(pending[c].op, 200, "", users[pending[c].uid], c, NoToken)
    /\ UNCHANGED <<users, now, held, startup>>

\* get_user_jobs up to its queries: the user's jobs are counted and two providers read
get_user_jobs(c, token) ==
    /\ Ready(c)
    /\ LET auth == dashboard_get_current_user(token, users, now)
           existing_jobs == CountOf(dash.jobs, auth.user.id)
           providers == Limit(dash.providers, 2)
       IN  IF auth.status /= 200
           THEN Reply(DashAnswer("get_user_jobs", auth.status, auth.detail, NoUser, c, token))
           ELSE IF existing_jobs = 0 /\ providers /= <<>>
           THEN /\ pending' = [pending EXCEPT ![c] =
                       [NoReq EXCEPT !.op = "get_user_jobs", !.uid = auth.user.id,
                                     !.data = [providers |-> providers]]]
                /\ UNCHANGED <<users, now, held, startup, resp, dash>>
           ELSE Reply(DashAnswer("get_user_jobs", 200, "", auth.user, c, token))

\* get_user_jobs, lines 509-516: the sample jobs are added and committed
get_user_jobs_commit(c) ==
    /\ pending[c].op = "get_user_jobs"
    /\ resp = NoResp
    /\ dash' = [dash EXCEPT !.jobs =
                   dash.jobs \o sample_jobs(pending[c].uid, pending[c].data.providers, now)]
    /\ pending' = [pending EXCEPT ![c] = NoReq]
    /\ resp' = DashAnswer("get_user_jobs", 200, "", users[pending[c].uid], c, NoToken)
    /\ UNCHANGED <<users, now, held, startup>>

\* get_user_transactions up to its count of the user's transactions
get_user_transactions(c, token) ==
    /\ Ready(c)
    /\ LET auth == dashboard_get_current_user(token, users, now)
           existing_transactions == CountOf(dash.transactions, auth.user.id)
       IN  IF auth.status /= 200
           THEN Reply(DashAnswer("get_user_transactions", auth.status, auth.detail,
                                 NoUser, c, token))
           ELSE IF existing_transactions = 0
           THEN /\ pending' = [pending EXCEPT ![c] =
                       [NoReq EXCEPT !.op = "get_user_transactions", !.uid = auth.user.id]]
                /\ UNCHANGED <<users, now, held, startup, resp, dash>>
           ELSE Reply(DashAnswer("get_user_transactions", 200, "", auth.user, c, token))

\* get_user_transactions, lines 598-605: the sample transactions are added and committed
get_user_transactions_commit(c) ==
    /\ pending[c].op = "get_user_transactions"
    /\ resp = NoResp
    /\ dash' = [dash EXCEPT !.transactions =
                   dash.transactions \o sample_transactions(pending[c].uid)]
    /\ pending' = [pending EXCEPT ![c] = NoReq]
    /\ resp' = DashAnswer("get_user_transactions", 200, "", users[pending[c].uid],
                          c, NoToken)
    /\ UNCHANGED <<users, now, held, startup>>

\* db.query(Job).filter(Job.id == job_uuid, Job.user_id == current_user.id).first()
OwnJob(jobs, job_id, user_id) ==
    job_id \in 1..Len(jobs) /\ jobs[job_id].user_id = user_id

\* the job after the action, the job itself when the action is refused
Acted(job, action, t) ==
    IF action = "cancel"
    THEN [job EXCEPT !.status = "cancelled", !.completed_at = t]
    ELSE IF action = "pause" /\ job.status = "running"
    THEN [job EXCEPT !.status = "pending"]
    ELSE IF action = "resume" /\ job.status = "pending"
    THEN [job EXCEPT !.status = "running",
                     !.started_at = IF job.started_at = NoneTime THEN t ELSE job.started_at]
    ELSE job

job_action(c, token, job_id, action) ==
    /\ Ready(c)
    /\ LET auth == dashboard_get_current_user(token, users, now) IN
       IF auth.status /= 200
       THEN Reply(DashAnswer("job_action", auth.status, auth.detail, NoUser, c, token))
       ELSE IF job_id = MalformedJobId
       THEN Reply(DashAnswer("job_action", 400, "Invalid job ID format", auth.user, c, token))
       ELSE IF ~OwnJob(dash.jobs, job_id, auth.user.id)
       THEN Reply(DashAnswer("job_action", 404, "Job not found", auth.user, c, token))
       ELSE IF ~(\/ action = "cancel"
                 \/ action = "pause" /\ dash.jobs[job_id].status = "running"
                 \/ action = "resume" /\ dash.jobs[job_id].status = "pending")
       THEN Reply(DashAnswer("job_action", 400, "Invalid action for job status",
                             auth.user, c, token))
       ELSE /\ dash' = [dash EXCEPT !.jobs[job_id] = Acted(dash.jobs[job_id], action, now)]
            /\ resp' = DashAnswer("job_action", 200, "Job action successful",
                                  auth.user, c, token)
            /\ UNCHANGED <<users, now, held, pending, startup>>

----------------------------------------------------------------------------
(* The clock *)

Tick ==
    /\ resp = NoResp
    /\ now + TickHours <= MaxTicks * TickHours
    /\ now' = now + TickHours
    /\ UNCHANGED <<users, held, pending, startup, resp, dash>>

----------------------------------------------------------------------------

Init ==
    /\ users = <<>>
    /\ now = 0
    /\ held = [c \in Clients |-> NoBundle]
    /\ pending = [c \in Clients |-> NoReq]
    /\ startup = "idle"
    /\ resp = NoResp
    /\ dash = NoSampleData

----------------------------------------------------------------------------
(* The directory under concurrent writers: every handler that writes the    *)
(* users table, two requests in flight, the clock standing still.           *)

DirPassword == "admin123"
DirNewPasswords == {"demo12345", "short"}
DirUpdates == {[username |-> u] : u \in Usernames} \cup {[email |-> e] : e \in Emails}

DirectoryNext ==
    \/ \E c \in Clients, username \in Usernames, email \in Emails :
            register(c, username, email, DirPassword, "user")
    \/ \E c \in Clients : register_commit(c)
    \/ \E username \in Usernames, email \in Emails :
            create_new_user("c2", username, email, DirPassword, "user")
    \/ create_new_user_commit("c2")
    \/ \E username \in Usernames, email \in Emails :
            simple_register("c2", username, email, "short")
    \/ simple_register_commit("c2")
    \/ \E username \in Usernames : login("c1", username, DirPassword)
    \/ \E token \in TokenInputs("c1"), user_update \in DirUpdates :
            update_user_profile("c1", token, user_update)
    \/ update_user_profile_commit("c1")
    \/ \E token \in TokenInputs("c1"), new_password \in DirNewPasswords :
            change_password("c1", token, DirPassword, new_password)
    \/ \E token \in TokenInputs("c1") : refresh_token("c1", token)
    \/ \E token \in TokenInputs("c1") : get_user_profile("c1", token)
    \/ \E c \in Clients : receive(c)
    \/ startup_probe_admin
    \/ startup_create_admin
    \/ startup_probe_demo
    \/ startup_create_demo

SpecDirectory == Init /\ [][DirectoryNext]_vars

----------------------------------------------------------------------------
(* The token lifecycle: client c1 against the three services, a second      *)
(* session c2 of the auth service, the clock running.                       *)

SessionUsernames == {"demo", "al"}
SessionEmail == "demo@dantegpu.com"
SessionPasswords == {"demo12345", "short"}
SessionUpdates == {[is_active |-> FALSE], [username |-> "al"]}

SessionNext ==
    \/ \E username \in SessionUsernames, password \in SessionPasswords, role \in Roles :
            register("c1", username, SessionEmail, password, role)
    \/ register_commit("c1")
    \/ \E username \in SessionUsernames, password \in SessionPasswords :
            simple_register("c1", username, SessionEmail, password)
    \/ simple_register_commit("c1")
    \/ \E c \in Clients, username \in SessionUsernames, password \in SessionPasswords :
            login(c, username, password)
    \/ \E username \in SessionUsernames, password \in SessionPasswords :
            login_for_user_details("c1", username, password)
    \/ \E username \in SessionUsernames, password \in SessionPasswords :
            simple_login("c1", username, password)
    \/ \E token \in TokenInputs("c1") : refresh_token("c1", token)
    \/ \E token \in TokenInputs("c1") : get_user_profile("c1", token)
    \/ \E token \in TokenInputs("c1") : simple_get_profile("c1", token)
    \/ \E token \in TokenInputs("c1") : dashboard_request("c1", token)
    \/ \E c \in Clients : \E token \in TokenInputs(c), user_update \in SessionUpdates :
            update_user_profile(c, token, user_update)
    \/ \E c \in Clients : update_user_profile_commit(c)
    \/ \E c \in Clients : receive(c)
    \/ Tick

SpecSession == Init /\ [][SessionNext]_vars

----------------------------------------------------------------------------
(* One account of the auth service through its life: registered, its        *)
(* password, username and role changed, its tokens used before and after.   *)

AccountUsername == "demo"
AccountEmail == "demo@dantegpu.com"
AccountPasswords == {"admin123", "newpass99", "short"}
\* RegisterRequest.role is any string
AccountRoles == Roles \cup {"provider"}
AccountUpdates ==
    {[password |-> "updated99"], [password |-> "short"], [username |-> "al"],
     [role |-> "admin"], [role |-> "user"]}

AccountNext ==
    \/ \E password \in {"admin123", "short"}, role \in AccountRoles :
            register("c1", AccountUsername, AccountEmail, password, role)
    \/ register_commit("c1")
    \/ \E username \in {AccountUsername, "al"}, password \in AccountPasswords :
            login("c1", username, password)
    \/ \E token \in TokenInputs("c1"),
          current_password \in AccountPasswords, new_password \in AccountPasswords :
            change_password("c1", token, current_password, new_password)
    \/ \E token \in TokenInputs("c1"), user_update \in AccountUpdates :
            update_user_profile("c1", token, user_update)
    \/ update_user_profile_commit("c1")
    \/ \E token \in TokenInputs("c1") : get_user_profile("c1", token)
    \/ \E token \in TokenInputs("c1") : list_users("c1", token)
    \/ \E token \in TokenInputs("c1") : logout("c1", token)
    \/ simple_logout("c1")
    \/ receive("c1")
    \/ startup_probe_admin
    \/ startup_create_admin
    \/ startup_probe_demo
    \/ startup_create_demo
    \/ Tick

SpecAccount == Init /\ [][AccountNext]_vars

----------------------------------------------------------------------------
(* Seeding: the service is started again and again, and init_db.py run, on  *)
(* the directories its requests leave behind.  startup_event completes      *)
(* before the application serves a request.                                 *)

Serving == startup = "idle"

SeedingNext ==
    \/ \E username \in Usernames, email \in Emails :
            Serving /\ register("c1", username, email, DirPassword, "user")
    \/ Serving /\ register_commit("c1")
    \/ \E username \in Usernames : Serving /\ login("c1", username, DirPassword)
    \/ \E token \in TokenInputs("c1"), user_update \in DirUpdates :
            Serving /\ update_user_profile("c1", token, user_update)
    \/ Serving /\ update_user_profile_commit("c1")
    \/ receive("c1")
    \/ startup_probe_admin
    \/ startup_create_admin
    \/ startup_probe_demo
    \/ startup_create_demo
    \/ init_database

SpecSeeding == Init /\ [][SeedingNext]_vars

----------------------------------------------------------------------------
(* The dashboard: two clients with accounts of simple_auth.py, whose        *)
(* tokens the dashboard accepts, and two of its workers on one database.    *)

DashEmails == [u \in Usernames |-> IF u = "admin" THEN "admin@dantegpu.com"
                                                   ELSE "demo@dantegpu.com"]
JobIds == {MalformedJobId} \cup (1..3)
JobActions == {"cancel", "pause", "resume", "restart"}

DashboardNext ==
    \/ simple_register("c1", "admin", DashEmails["admin"], DirPassword)
    \/ simple_register("c2", "demo", DashEmails["demo"], DirPassword)
    \/ \E c \in Clients : simple_register_commit(c)
    \/ simple_login("c2", "admin", DirPassword)
    \/ \E c \in Clients : receive(c)
    \/ \E token \in TokenInputs("c1") : get_dashboard_stats("c1", token)
    \/ \E token \in TokenInputs("c2") : get_providers("c2", token)
    \/ \E c \in Clients : init_sample_data_wallets(c)
    \/ \E c \in Clients : init_sample_data_providers(c)
    \/ \E c \in Clients : \E token \in TokenInputs(c) : get_user_jobs(c, token)
    \/ \E c \in Clients : get_user_jobs_commit(c)
    \/ \E c \in Clients : \E token \in TokenInputs(c) : get_user_transactions(c, token)
    \/ \E c \in Clients : get_user_transactions_commit(c)
    \/ \E token \in TokenInputs("c1"), job_id \in JobIds, action \in JobActions :
            job_action("c1", token, job_id, action)
    \/ \E token \in TokenInputs("c2"), job_id \in JobIds :
            job_action("c2", token, job_id, "cancel")

SpecDashboard == Init /\ [][DashboardNext]_vars

----------------------------------------------------------------------------
(* The token codec on its own: a claims set is issued as a token of one of  *)
(* the three kinds the services issue, and the token is verified at once or *)
(* after the clock has moved.                                               *)

TokenKinds == {"access", "refresh", "simple"}

Lifetime(kind) ==
    CASE kind = "access" -> AccessTokenHours
      [] kind = "refresh" -> RefreshTokenDays * HoursPerDay
      [] kind = "simple" -> ACCESS_TOKEN_EXPIRE_HOURS

Issue(kind, data, t) ==
    CASE kind = "access" -> create_access_token(data, t)
      [] kind = "refresh" -> create_refresh_token(data, t)
      [] kind = "simple" -> simple_create_access_token(data, t)

\* what the service's verify_token answers: the claims it returns, or its 401
VerifyAnswer(kind, token, t) ==
    LET v == IF kind = "simple"
             THEN simple_verify_token(token, simple_SECRET_KEY, t)
             ELSE verify_token(token, t)
    IN  [Response(IF kind = "simple" THEN "simple" ELSE "main", "verify_token",
                  v.status, v.detail) EXCEPT
            !.username = v.data.sub, !.user_id = v.data.user_id,
            !.email = v.data.email, !.role = v.data.role]

\* pending[c] keeps the claims set that was put in, held[c] the token issued for it
issue_token(c, kind, sub, user_id, email, role) ==
    /\ resp = NoResp
    /\ pending' = [pending EXCEPT ![c] =
            [NoReq EXCEPT !.op = kind, !.username = sub, !.uid = user_id,
                          !.email = email, !.role = role]]
    /\ held' = [held EXCEPT ![c] =
            [access |-> Issue(kind, Claims(sub, user_id, email, role), now),
             refresh |-> NoToken, user_id |-> user_id]]
    /\ UNCHANGED <<users, now, startup, resp, dash>>

verify_issued(c) ==
    /\ resp = NoResp
    /\ pending[c].op \in TokenKinds
    /\ resp' = Answer(VerifyAnswer(pending[c].op, held[c].access, now),
                      c, NoneStr, NoneStr, held[c].access)
    /\ UNCHANGED <<users, now, held, pending, startup, dash>>

TokenNext ==
    \/ \E kind \in TokenKinds, sub \in Usernames, user_id \in 1..MaxUsers,
          email \in Emails \cup {NoneStr}, role \in Roles \cup {NoneStr} :
            issue_token("c1", kind, sub, user_id, email, role)
    \/ verify_issued("c1")
    \/ receive("c1")
    \/ Tick

SpecToken == Init /\ [][TokenNext]_vars

----------------------------------------------------------------------------
(* Properties of the user directory, under SpecDirectory *)

\* C1: in every reachable state no two distinct user records share a username and
\* no two share an email, whatever the interleaving of register, update_user_profile,
\* change_password and the startup seeding.
C1_UniqueUsernameAndEmail ==
    \A i, j \in 1..Len(users) :
        i /= j => /\ users[i].username /= users[j].username
                  /\ users[i].email /= users[j].email

\* two users exist and a commit that had passed its probes was refused by the indexes
C1_Witness ==
    /\ Len(users) = 2
    /\ resp.status = 500
    /\ resp.detail \in {"Failed to create user", "Failed to update profile"}

\* C2: a register / create_new_user request that passed the existence probes and whose
\* username has been taken before its own commit is answered with the conflict
\* response (400 / 409), no other error, and adds no user.
C2_ConcurrentRegisterConflict ==
    [][\A c \in Clients :
        (/\ pending[c].op \in {"register", "create_new_user"}
         /\ pending'[c] = NoReq
         /\ get_user_by_username(users, pending[c].username) /= NoUser)
        => (resp'.status \in {400, 409} /\ users' = users)]_vars

Taken(username, email) ==
    \/ get_user_by_username(users, username) /= NoUser
    \/ get_user_by_email(users, email) /= NoUser

ConflictDetails ==
    {"Email already registered", "Username already taken",
     "A user with this username already exists.", "A user with this email already exists."}

\* C3: a register (main, simple_auth) or create_new_user request whose username or
\* whose email is held by an existing user is answered at once with the conflict
\* response (400, resp. 409 for create_new_user) and leaves the users unchanged.
C3_TakenIsRejected ==
    [][\A c \in Clients, username \in Usernames, email \in Emails :
        Taken(username, email) =>
            /\ register(c, username, email, DirPassword, "user") =>
                    /\ resp'.status = 400
                    /\ resp'.detail \in ConflictDetails
                    /\ users' = users
            /\ create_new_user(c, username, email, DirPassword, "user") =>
                    /\ resp'.status = 409
                    /\ resp'.detail \in ConflictDetails
                    /\ users' = users
            /\ simple_register(c, username, email, "short") =>
                    /\ resp'.status = 400
                    /\ resp'.detail \in ConflictDetails
                    /\ users' = users]_vars

\* main's register refused a taken username whose email was free: the second probe
C3_Witness ==
    /\ resp.svc = "main"
    /\ resp.op = "register"
    /\ resp.detail = "Username already taken"
    /\ get_user_by_username(users, resp.request.username) /= NoUser

----------------------------------------------------------------------------
(* Properties of the token lifecycle, under SpecSession.  While a response  *)
(* is on its way no handler runs, so `users` and `now` are those the        *)
(* handler saw.                                                             *)

RegisterSucceeded == resp.svc = "main" /\ resp.op = "register" /\ resp.status = 200

\* C4: the access token of a successful register carries the created username as its
\* subject, and get_current_user on that token returns the user whose id is the
\* user_id of the register response.
C4_RegisterTokenAuthorizesCreatedUser ==
    RegisterSucceeded =>
        /\ resp.token.sub = resp.request.username
        /\ users[resp.user_id].username = resp.request.username
        /\ get_current_user(resp.token, users, now).status = 200
        /\ get_current_user(resp.token, users, now).user.id = resp.user_id

C4_Witness == RegisterSucceeded /\ resp.user_id = Len(users)

ValidlySigned(token) == ~jwt_decode(token, settings_SECRET_KEY, now).err

\* C5: a protected operation of main.py never succeeds for a validly signed,
\* unexpired refresh-type token presented as the bearer token.
C5_AuthorizeRejectsRefreshType ==
    (/\ resp.svc = "main"
     /\ resp.op = "get_profile"
     /\ ValidlySigned(resp.request.token)
     /\ resp.request.token.type = "refresh")
    => resp.status /= 200

\* C6: refresh answers 401 and issues no access token when the token presented is
\* not of type refresh or carries no subject.
C6_RefreshRejectsOtherTypes ==
    (/\ resp.op = "refresh"
     /\ \/ resp.request.token.type /= "refresh"
        \/ resp.request.token.sub = NoneStr)
    => /\ resp.status = 401
       /\ resp.token = NoToken

\* a validly signed, unexpired access token of an existing active user was presented
C6_Witness ==
    /\ resp.op = "refresh"
    /\ ValidlySigned(resp.request.token)
    /\ resp.request.token.type = "access"
    /\ get_current_user(resp.request.token, users, now).status = 200

\* C7: no protected endpoint of main.py, simple_auth.py or dashboard_service.py
\* answers with a user whose is_active flag is false at the time of the request.
C7_AuthorizeNeverReturnsInactive ==
    (resp.op \in {"get_profile", "dashboard"} /\ resp.status = 200)
    => users[resp.user_id].is_active

LoginUser == get_user_by_username(users, resp.request.username)

UnknownUsername == LoginUser = NoUser

WrongPassword ==
    LoginUser /= NoUser /\ ~verify_password(resp.request.password, LoginUser.hashed_password)

InactiveCorrectPassword ==
    /\ LoginUser /= NoUser
    /\ ~LoginUser.is_active
    /\ verify_password(resp.request.password, LoginUser.hashed_password)

\* C8: a login with an unknown username, with a wrong password, or with the correct
\* password of an inactive user is answered with one and the same status and message.
C8_LoginFailuresIndistinguishable ==
    (resp.op = "login" /\ (UnknownUsername \/ WrongPassword \/ InactiveCorrectPassword))
    => /\ resp.status = 401
       /\ resp.detail = IF resp.svc = "api" THEN "Incorrect username or password"
                        ELSE "Invalid username or password"

\* C9: POST /auth/login answers 401 for an unknown username or a wrong password and
\* 400 for the correct password of an inactive user.
C9_LoginStatusCodes ==
    (resp.op = "login" /\ resp.svc \in {"main", "simple"})
    => /\ (UnknownUsername \/ WrongPassword) => resp.status = 401
       /\ InactiveCorrectPassword => resp.status = 400

Unexpired(token) == token.exp = NoneTime \/ token.exp >= now

\* C10: refresh with the unexpired refresh token a login or register returned, its
\* user existing and active, succeeds with an access token for the same username and
\* returns the same refresh token, however often it is repeated.
C10_RefreshWithIssuedToken ==
    (/\ resp.op = "refresh"
     /\ held["c1"].refresh /= NoToken
     /\ resp.request.token = held["c1"].refresh
     /\ Unexpired(resp.request.token)
     /\ users[held["c1"].user_id].is_active)
    => /\ resp.status = 200
       /\ resp.token.sub = users[held["c1"].user_id].username
       /\ resp.refresh_token = resp.request.token

ValidRefreshToken(token) ==
    /\ ValidlySigned(token)
    /\ token.type = "refresh"
    /\ token.sub /= NoneStr

\* C11: refresh with a valid refresh-type token whose subject names no existing user,
\* or a user who is inactive at the time of the call, answers 401 and issues no
\* access token.
C11_RefreshMissingOrInactive ==
    (/\ resp.op = "refresh"
     /\ ValidRefreshToken(resp.request.token)
     /\ \/ get_user_by_username(users, resp.request.token.sub) = NoUser
        \/ ~get_user_by_username(users, resp.request.token.sub).is_active)
    => /\ resp.status = 401
       /\ resp.token = NoToken

\* the refresh token of a user who has been deactivated since was presented
C11_Witness ==
    /\ resp.op = "refresh"
    /\ ValidRefreshToken(resp.request.token)
    /\ get_user_by_username(users, resp.request.token.sub) /= NoUser
    /\ ~get_user_by_username(users, resp.request.token.sub).is_active

----------------------------------------------------------------------------
(* Properties of one account, under SpecAccount *)

\* the user a bearer token authorizes in the current state
Bearer(token) == get_current_active_user(token, users, now)

\* after the step, login answers 401 to the old plaintext and 200 to the new one
OldFailsNewSucceeds(username, old, new) ==
    /\ login_response(users', username, old, now').status = 401
    /\ login_response(users', username, new, now').status = 200

\* C12 as stated: after every successful change_password(current, new) the next login
\* with the old plaintext fails and the next login with the new plaintext succeeds.
C12_AnyPasswordChange ==
    [][\A token \in TokenInputs("c1"), current \in AccountPasswords, new \in AccountPasswords :
        (change_password("c1", token, current, new) /\ resp'.status = 200)
        => OldFailsNewSucceeds(Bearer(token).user.username, current, new)]_vars

\* C12, amended: after every successful change_password(current, new) whose new password
\* differs from the current one, the next login with the old plaintext fails and the
\* next login with the new plaintext succeeds.
C12_PasswordChangeTakesEffect ==
    [][\A token \in TokenInputs("c1"), current \in AccountPasswords, new \in AccountPasswords :
        (change_password("c1", token, current, new) /\ resp'.status = 200 /\ new /= current)
        => OldFailsNewSucceeds(Bearer(token).user.username, current, new)]_vars

\* a password change to a different password was answered 200
C12_Witness ==
    /\ resp.op = "change_password"
    /\ resp.status = 200
    /\ \E i \in 1..Len(users) :
        /\ users[i].hashed_password = get_password_hash("newpass99")
        /\ resp.request.password = "admin123"

\* C13: change_password answers 400 when the current password does not verify against
\* the stored hash and when the new password has fewer than 8 characters, and leaves
\* the user's hashed_password and updated_at as they were.
C13_PasswordChangeRejected ==
    [][\A token \in TokenInputs("c1"), current \in AccountPasswords, new \in AccountPasswords :
        (/\ change_password("c1", token, current, new)
         /\ Bearer(token).status = 200
         /\ \/ ~verify_password(current, Bearer(token).user.hashed_password)
            \/ Len(new) < MinPasswordLen)
        => /\ resp'.status = 400
           /\ users' = users]_vars

\* the current password verified and the new one was too short
C13_Witness ==
    /\ resp.op = "change_password"
    /\ resp.detail = "New password must be at least 8 characters long"
    /\ verify_password(resp.request.password, Bearer(resp.request.token).user.hashed_password)

----------------------------------------------------------------------------
(* Further properties under SpecSession *)

\* C14: register answers a password of fewer than 8 characters with a validation
\* error (400 / 422), and no user record carries the hash of such a password.
C14_ShortPasswordCreatesNoUser ==
    /\ (resp.op = "register" /\ Len(resp.request.password) < MinPasswordLen)
       => resp.status \in {400, 422}
    /\ \A i \in 1..Len(users), password \in SessionPasswords :
        Len(password) < MinPasswordLen
        => users[i].hashed_password /= get_password_hash(password)

----------------------------------------------------------------------------
(* Further properties under SpecDirectory *)

\* the update names a username or an email that another user holds
HeldByOther(user_update, me) ==
    \E i \in 1..Len(users) :
        /\ users[i].id /= me.id
        /\ \/ "username" \in DOMAIN user_update /\ users[i].username = user_update.username
           \/ "email" \in DOMAIN user_update /\ users[i].email = user_update.email

\* the update names the requester's own current username or email
OwnValue(user_update, me) ==
    /\ "username" \in DOMAIN user_update => user_update.username = me.username
    /\ "email" \in DOMAIN user_update => user_update.email = me.email

\* C15: update_user_profile that sets the username or the email to a value held by a
\* different user answers 400 and changes nothing; setting them to the requester's own
\* current value is no conflict: the request goes on and is answered 200.
C15_UpdateConflict ==
    [][/\ \A token \in TokenInputs("c1"), user_update \in DirUpdates :
            (update_user_profile("c1", token, user_update) /\ Bearer(token).status = 200)
            => /\ HeldByOther(user_update, Bearer(token).user)
                  => (resp'.status = 400 /\ users' = users)
               /\ OwnValue(user_update, Bearer(token).user)
                  => (resp' = NoResp /\ pending'["c1"].op = "update_profile")
       /\ (/\ update_user_profile_commit("c1")
           /\ OwnValue(pending["c1"].data, users[pending["c1"].uid]))
          => (resp'.status = 200 /\ users' = users)]_vars

\* the requester asked for the username of the other user
C15_Witness ==
    /\ resp.op = "update_profile"
    /\ resp.status = 400
    /\ resp.detail = "Username already taken"
    /\ Len(users) = 2

----------------------------------------------------------------------------
(* Further properties under SpecAccount *)

PlainPasswords == Passwords \cup AccountPasswords \cup {"updated99"}

\* C16: in every reachable state the hashed_password of every user is the hasher's
\* output for some plaintext and no plaintext itself, after register, update with a
\* password, change_password and the seeding.
C16_StoredPasswordIsHash ==
    \A i \in 1..Len(users) :
        /\ \E password \in PlainPasswords :
                users[i].hashed_password = get_password_hash(password)
        /\ users[i].hashed_password \notin PlainPasswords

\* update_user_profile stored a password
C16_Witness ==
    /\ resp.op = "update_profile"
    /\ resp.status = 200
    /\ users[resp.user_id].hashed_password = get_password_hash("updated99")

----------------------------------------------------------------------------
(* Properties of the token codec, under SpecToken *)

Verified == resp.op = "verify_token"

----------------------------------------------------------------------------
(* Properties of the account's username and role, under SpecAccount *)

\* C18: in every reachable state every stored username has between 3 and 50
\* characters, after any sequence of register and update_user_profile calls.
C18_UsernameLength ==
    \A i \in 1..Len(users) :
        /\ Len(users[i].username) >= MinUsernameLen
        /\ Len(users[i].username) <= MaxUsernameLen


\* C19: list_users answers an authorized requester 403 unless the role on the user's
\* live record is "admin" at the time of the request, whatever role the token carries.
C19_ListUsersByLiveRole ==
    (resp.op = "list_users" /\ Bearer(resp.request.token).status = 200)
    => resp.status = IF Bearer(resp.request.token).user.role = "admin" THEN 200 ELSE 403

\* a token issued to an admin was presented after the user's role had become "user"
C19_Witness ==
    /\ resp.op = "list_users"
    /\ resp.status = 403
    /\ resp.request.token.role = "admin"
    /\ Bearer(resp.request.token).user.role = "user"


\* C20: logout changes no server-side state: the users table is as before, and the
\* token that logged out is still accepted by get_current_active_user after it.
C20_LogoutKeepsState ==
    [][/\ \A token \in TokenInputs("c1") :
            logout("c1", token)
            => /\ users' = users
               /\ resp'.status = 200
                  => get_current_active_user(token, users', now').status = 200
       /\ simple_logout("c1") => users' = users]_vars

\* a logout was answered 200 and its token still authorizes the user
C20_Witness ==
    /\ resp.op = "logout"
    /\ resp.svc = "main"
    /\ resp.status = 200
    /\ Bearer(resp.request.token).status = 200

----------------------------------------------------------------------------
(* Frame properties of the account's record, under SpecAccount *)

\* the column a supplied field is stored in
Column(f) == IF f = "password" THEN "hashed_password" ELSE f

\* the value a supplied field is stored as
Stored(user_update, f) ==
    IF f = "password" THEN get_password_hash(user_update.password) ELSE user_update[f]

\* the update commit of client c1 that is answered 200
UpdateApplied == update_user_profile_commit("c1") /\ resp'.status = 200

\* the supplied fields are stored, the password as its hash and in no field of its own
SuppliedFieldsStored ==
    LET r == pending["c1"] IN
    /\ \A f \in DOMAIN r.data : users'[r.uid][Column(f)] = Stored(r.data, f)
    /\ DOMAIN users'[r.uid] = DOMAIN users[r.uid]
    /\ "password" \notin DOMAIN users'[r.uid]

\* every other user record is as it was
OtherUsersUnchanged(uid) ==
    /\ Len(users') = Len(users)
    /\ \A i \in 1..Len(users) : i /= uid => users'[i] = users[i]

\* C21 as stated: update changes exactly the fields supplied and leaves every other
\* field of that user and every other user record unchanged; a supplied password is
\* stored only as its hash.
C21_UpdateChangesOnlySupplied ==
    [][UpdateApplied =>
        LET r == pending["c1"] IN
        /\ SuppliedFieldsStored
        /\ \A f \in DOMAIN users[r.uid] \ {Column(g) : g \in DOMAIN r.data} :
                users'[r.uid][f] = users[r.uid][f]
        /\ OtherUsersUnchanged(r.uid)]_vars

\* C21, amended: update changes exactly the fields supplied, and updated_at, which is
\* set to the instant of the update when a field changed; every other field of that user
\* and every other user record is unchanged; a supplied password is stored only as its
\* hash.
C21_UpdateFrame ==
    [][UpdateApplied =>
        LET r == pending["c1"] IN
        /\ SuppliedFieldsStored
        /\ \A f \in DOMAIN users[r.uid] \ ({Column(g) : g \in DOMAIN r.data} \cup {"updated_at"}) :
                users'[r.uid][f] = users[r.uid][f]
        /\ users'[r.uid].updated_at \in {users[r.uid].updated_at, now}
        /\ OtherUsersUnchanged(r.uid)]_vars

\* the username of an admin was changed some time after the record was written last
C21_Witness ==
    /\ resp.op = "update_profile"
    /\ resp.status = 200
    /\ resp.username = "al"
    /\ resp.role = "admin"
    /\ users[resp.user_id].updated_at > 0

\* C22: a successful change_password changes only hashed_password and updated_at of
\* the requester's record; its id, username, email, role and is_active and every other
\* user record are unchanged.
C22_PasswordChangeFrame ==
    [][\A token \in TokenInputs("c1"), current \in AccountPasswords, new \in AccountPasswords :
        (change_password("c1", token, current, new) /\ resp'.status = 200)
        => LET uid == Bearer(token).user.id IN
           /\ \A f \in DOMAIN users[uid] \ {"hashed_password", "updated_at"} :
                users'[uid][f] = users[uid][f]
           /\ OtherUsersUnchanged(uid)]_vars

\* a password was changed while the table held a second user
C22_Witness ==
    /\ resp.op = "change_password"
    /\ resp.status = 200
    /\ Len(users) = 2
    /\ users[Bearer(resp.request.token).user.id].hashed_password = get_password_hash("newpass99")

----------------------------------------------------------------------------
(* Error responses and token subjects, under SpecDirectory *)

\* the step answers a request with an error
ErrorAnswered == resp' /= NoResp /\ resp'.status \notin {200, 201}

\* C23: every request that is answered with an error leaves the users table exactly
\* as it was before the step that answers it.
C23_ErrorsLeaveDirectoryUnchanged ==
    [][ErrorAnswered => users' = users]_vars

\* an update that had passed its probes was refused at its commit
C23_Witness ==
    /\ resp.op = "update_profile"
    /\ resp.status = 500
    /\ Len(users) = 2

----------------------------------------------------------------------------
(* Properties of the seeding, under SpecSeeding *)

Named(db, username) == get_user_by_username(db, username) /= NoUser

BothSeeded(db) == Named(db, "admin") /\ Named(db, "demo")

\* a run of startup_event returns
SeedingRunEnds == startup /= "idle" /\ startup' = "idle"

\* a step of startup_event or the run of init_database
SeedingStep == startup' /= startup \/ init_database

\* no user of another name holds the email of a seed user
SeedEmailsFree(db) ==
    \A i \in 1..Len(db) :
        /\ db[i].email = "admin@dantegpu.com" => db[i].username = "admin"
        /\ db[i].email = "demo@dantegpu.com" => db[i].username = "demo"

----------------------------------------------------------------------------
(* The subject of a token, under SpecDirectory *)

\* C25: a token issued to one user never authorizes as a different user: a protected
\* request that Authorize lets through on an unexpired token is answered for the user
\* whose id is the user_id embedded in the token.
C25_TokenAuthorizesItsOwnUser ==
    (/\ resp /= NoResp
     /\ resp.svc = "main"
     /\ resp.op = "get_profile"
     /\ resp.status = 200
     /\ Unexpired(resp.request.token))
        => resp.user_id = resp.request.token.user_id

----------------------------------------------------------------------------
(* Credentials and privileges of an account, under SpecAccount *)

\* the step answers a request that supplied the current password of user i, which was
\* verified against the stored hash
CurrentPasswordVerified(i) ==
    /\ resp' /= NoResp
    /\ resp'.op = "change_password"
    /\ resp'.status = 200
    /\ verify_password(resp'.request.password, users[i].hashed_password)

\* C26: the stored password hash of an existing user changes only in a request that
\* supplied that user's current password and had it verified against the stored
\* hash; no other authenticated operation, UpdateProfile included, replaces the hash.
C26_HashChangesOnlyWithCurrentPassword ==
    [][\A i \in 1..Len(users) :
          users'[i].hashed_password /= users[i].hashed_password
              => CurrentPasswordVerified(i)]_vars

\* C27: a caller who starts without admin credentials (client c1 never holds the
\* password of the seeded admin) obtains no successful response from the admin-only
\* user listing, whatever it registers, logs in as, refreshes, updates or changes.
C27_NoSelfServiceAdmin ==
    (/\ resp /= NoResp
     /\ resp.client = "c1"
     /\ resp.op = "list_users")
        => resp.status /= 200

\* C28: the permissions of a Register, Login or Refresh response contain admin:all
\* only when the user's role is admin.
C28_AdminPermissionOnlyForAdmin ==
    (/\ resp /= NoResp
     /\ resp.svc = "main"
     /\ resp.op \in {"register", "login", "refresh"}
     /\ resp.status = 200
     /\ "admin:all" \in resp.permissions)
        => resp.role = "admin"

----------------------------------------------------------------------------
(* The dashboard's jobs and sample data, under SpecDashboard *)

Finished == {"completed", "failed", "cancelled"}

\* the step answers job_action with 200 for the given action
JobActionApplied(job_id, action) ==
    \E c \in Clients : \E token \in TokenInputs(c) :
        job_action(c, token, job_id, action) /\ resp'.status = 200

\* C29: in job_action a job in a finished status (completed, failed, cancelled) never
\* changes status again; pause is applied only to a running job and resume only to a
\* pending one; a job is changed only by a request from its owner; and every
\* rejected action (400 or 404) leaves the job unchanged.
C29_JobActionRespectsStatus ==
    [][/\ \A i \in 1..Len(dash.jobs) :
            dash.jobs[i].status \in Finished
                => dash'.jobs[i].status = dash.jobs[i].status
       /\ \A i \in 1..Len(dash.jobs) :
            /\ JobActionApplied(i, "pause") => dash.jobs[i].status = "running"
            /\ JobActionApplied(i, "resume") => dash.jobs[i].status = "pending"
            /\ dash'.jobs[i] /= dash.jobs[i]
                => (resp'.op = "job_action" /\ resp'.user_id = dash.jobs[i].user_id)
       /\ (resp' /= NoResp /\ resp'.op = "job_action" /\ resp'.status \in {400, 404})
            => dash'.jobs = dash.jobs]_vars

\* C30: the lazily created sample data is created at most once under any interleaving
\* of concurrent requests: the three sample providers are inserted once overall, and
\* each user gets its three sample jobs and four sample transactions once.
C30_SampleDataCreatedOnce ==
    /\ Len(dash.providers) \in {0, Len(providers_data)}
    /\ \A u \in 1..Len(users) :
        /\ CountOf(dash.jobs, u) \in {0, Len(sample_jobs(u, dash.providers, now))}
        /\ CountOf(dash.transactions, u) \in {0, Len(sample_transactions(u))}

====
